---- MODULE Spec2Model ----
(***************************************************************************)
(* Model of the Mini_NotebookLM retrieval core: the sentence chunker       *)
(* (services/chunker), the in-memory VectorStore (services/vectorStore),   *)
(* embedChunks, buildPrompt and getAnswerFromDocuments with the module's   *)
(* startup (services/geminiService), and the upload, delete and send       *)
(* handlers of App.                                                        *)
(*                                                                         *)
(* A text is a run-length encoded string: a sequence of runs [c, n], the   *)
(* character c repeated n times, adjacent runs holding different           *)
(* characters.  Lengths are the sums of the run counts, so the chunker's   *)
(* 1500 character threshold is kept as it is in the source.                *)
(***************************************************************************)
EXTENDS Integers, Sequences, FiniteSets, TLC

VARIABLES
    text,       \* chunker: the text handed to chunkText
    sourceName, \* chunker: the sourceName handed to chunkText
    out,        \* chunker: the DocumentChunk[] chunkText returned
    cpc,        \* chunker: "input" while the text is typed, "done" after the call
    chunks,     \* VectorStore.chunks
    op,         \* the VectorStore method its driver called last, with its arguments
                \* (and, for removeBySource, the chunks it found)
    result,     \* what the last VectorStore call returned (<<>> when not a search)
    aiProvider, \* geminiService: 'GEMINI' or 'GATEWAY', fixed at module load
    credentials, \* geminiService: whether the selected provider has what it needs
                \* (GEMINI: API_KEY; GATEWAY: the gateway URL and its API key)
    startup,    \* "running" when the geminiService module loaded, "fatal" when
                \* its load threw
    requests,   \* the requests sent to the providers so far, in order, each with
                \* its state: "outstanding", "answered" or "failed"
    embed,      \* an embedChunks call made on its own: its locals and its outcome
    uploads,    \* App: the handleFileUpload calls, each with its file, its position
                \* and the embedChunks call it awaits
    sources,    \* App: the sources state (useState)
    isProcessing, \* App: the isProcessing state (useState)
    asks,       \* App: the handleSendMessage calls, each with its position in
                \* getAnswerFromDocuments, what its search returned and its reply
    ranked,     \* buildPrompt: the chunks handed to it
    prompt      \* buildPrompt: the prompt it returned

chunkerVars == <<text, sourceName, out, cpc>>

storeVars == <<chunks, op, result>>

configVars == <<aiProvider, credentials, startup>>

serviceVars == <<aiProvider, credentials, startup, requests>>

appVars == <<uploads, sources, isProcessing, asks>>

promptVars == <<ranked, prompt>>

vars ==
    <<text, sourceName, out, cpc, chunks, op, result, aiProvider, credentials,
      startup, requests, embed, uploads, sources, isProcessing, asks, ranked,
      prompt>>

----------------------------------------------------------------------------
(* Bounds *)

\* most calls of handleFileUpload
MaxUploads == 2

\* most calls of handleSendMessage
MaxAsks == 1

\* most chunks handed to buildPrompt
MaxRanked == 3

\* most chunks handed to an embedChunks call made on its own
MaxChunks == 101

\* longest input text, in runs
MaxRuns == 7

\* most chunks held by the VectorStore driven through its methods
MaxStore == 3

\* most chunks handed to one VectorStore.add
MaxAdd == 2

----------------------------------------------------------------------------
(* Small helpers *)

Max(a, b) == IF a >= b THEN a ELSE b

Min(a, b) == IF a <= b THEN a ELSE b

\* Array.prototype.slice(start) for 0 <= start
SliceFrom(s, start) == SubSeq(s, start + 1, Len(s))

----------------------------------------------------------------------------
(* Texts *)

Sources == {"X", "Y"}

IsTerminator(c) == c \in {".", "!", "?"}

IsWhitespace(c) == c \in {" ", "\n"}

Run(c, n) == [c |-> c, n |-> n]

\* the runs input texts are made of
Pieces ==
    { Run("a", 400), Run("b", 800), Run(" ", 1), Run(".", 1),
      Run(" ", 1500), Run("?", 1500) }

\* String.prototype.length
RECURSIVE TextLen(_)
TextLen(t) == IF t = <<>> THEN 0 ELSE Head(t).n + TextLen(Tail(t))

\* String.prototype.trim
RECURSIVE TrimStart(_)
TrimStart(t) ==
    IF t # <<>> /\ IsWhitespace(Head(t).c) THEN TrimStart(Tail(t)) ELSE t

RECURSIVE TrimEnd(_)
TrimEnd(t) ==
    IF t # <<>> /\ IsWhitespace(t[Len(t)].c)
    THEN TrimEnd(SubSeq(t, 1, Len(t) - 1))
    ELSE t

Trim(t) == TrimEnd(TrimStart(t))

\* text.match(/[^.!?]+[.!?]*/g) || [] : the matches from run i on, cur being
\* the match under construction and inTerm telling that its terminators began
RECURSIVE MatchFrom(_, _, _, _)
MatchFrom(t, i, cur, inTerm) ==
    IF i > Len(t)
    THEN IF cur = <<>> THEN <<>> ELSE <<cur>>
    ELSE IF IsTerminator(t[i].c)
         THEN IF cur = <<>>
              THEN MatchFrom(t, i + 1, <<>>, FALSE)
              ELSE MatchFrom(t, i + 1, Append(cur, t[i]), TRUE)
         ELSE IF inTerm
              THEN <<cur>> \o MatchFrom(t, i + 1, <<t[i]>>, FALSE)
              ELSE MatchFrom(t, i + 1, Append(cur, t[i]), FALSE)

MatchSentences(t) == MatchFrom(t, 1, <<>>, FALSE)

\* sentences.map(s => s.trim()).filter(s => s.length > 0)
getSentences(t) ==
    LET m == MatchSentences(t)
        trimmed == [i \in 1..Len(m) |-> Trim(m[i])]
    IN  SelectSeq(trimmed, LAMBDA s : TextLen(s) > 0)

\* Array.prototype.join(' ')
RECURSIVE Join(_)
Join(ss) ==
    IF ss = <<>> THEN <<>>
    ELSE IF Len(ss) = 1 THEN ss[1]
    ELSE ss[1] \o <<Run(" ", 1)>> \o Join(Tail(ss))

----------------------------------------------------------------------------
(* chunkText *)

chunkSize == 1500

overlapSentences == 2

\* a threshold that lost a digit
IsShortTextTypo(t) == TextLen(t) < 150

\* the guard of the early return
IsShortText(t) == TextLen(t) < chunkSize

\* "adding the next sentence exceeds chunk size": finalize the current chunk
MustFinalize(cur, sentence) ==
    TextLen(Join(cur)) + TextLen(sentence) > chunkSize /\ Len(cur) > 0

\* an overlap of one sentence instead of overlapSentences
OverlapOne(cur) == SliceFrom(cur, Max(0, Len(cur) - 1))

\* the sentences the next chunk starts with
Overlap(cur) == SliceFrom(cur, Max(0, Len(cur) - overlapSentences))

\* the push of the sentence moved into an else branch: the sentence that
\* closes a chunk is lost
WindowAfterFinalizeNoPush(cur, sentence) == Overlap(cur)

\* the window after a chunk was finalized: the overlap, then the sentence
WindowAfterFinalize(cur, sentence) == Append(Overlap(cur), sentence)

\* the for loop and the final push: the windows of sentences, in order
RECURSIVE ChunkLoop(_, _, _, _)
ChunkLoop(sentences, i, windows, cur) ==
    IF i > Len(sentences)
    THEN IF Len(cur) > 0 THEN Append(windows, cur) ELSE windows
    ELSE IF MustFinalize(cur, sentences[i])
         THEN ChunkLoop(sentences, i + 1, Append(windows, cur),
                        WindowAfterFinalize(cur, sentences[i]))
         ELSE ChunkLoop(sentences, i + 1, windows, Append(cur, sentences[i]))

ChunkWindows(sentences) == ChunkLoop(sentences, 1, <<>>, <<>>)

Chunk(name, content) == [source |-> name, content |-> content]

chunkText(name, t) ==
    IF IsShortText(t)
    THEN <<Chunk(name, t)>>
    ELSE LET w == ChunkWindows(getSentences(t))
         IN  [i \in 1..Len(w) |-> Chunk(name, Join(w[i]))]

----------------------------------------------------------------------------
(* The chunker applied to every text of at most MaxRuns runs *)

ChunkerIdle ==
    /\ text = <<>>
    /\ sourceName = "X"
    /\ out = <<>>
    /\ cpc = "input"

StoreIdle ==
    /\ chunks = <<>>
    /\ op = [name |-> "new"]
    /\ result = <<>>

\* no embedChunks call made on its own
EmbedIdle == embed = [status |-> "none"]

ServiceIdle ==
    /\ aiProvider = "GEMINI"
    /\ credentials = TRUE
    /\ startup = "running"
    /\ requests = <<>>

\* App mounted, no handler called yet
AppIdle ==
    /\ uploads = [t \in 1..MaxUploads |-> [pc |-> "idle"]]
    /\ sources = <<>>
    /\ isProcessing = FALSE
    /\ asks = [a \in 1..MaxAsks |-> [pc |-> "idle"]]

\* buildPrompt not called
PromptIdle ==
    /\ ranked = <<>>
    /\ prompt = [status |-> "none"]

ChunkerInit == ChunkerIdle /\ StoreIdle /\ ServiceIdle /\ EmbedIdle /\ AppIdle /\ PromptIdle

\* one more run of the input text
TypeRun ==
    /\ cpc = "input"
    /\ Len(text) < MaxRuns
    /\ \E p \in Pieces :
        /\ IF text = <<>> THEN TRUE ELSE text[Len(text)].c # p.c
        /\ text' = Append(text, p)
    /\ UNCHANGED <<sourceName, out, cpc>>
    /\ UNCHANGED <<storeVars, serviceVars, embed, appVars, promptVars>>

CallChunkText ==
    /\ cpc = "input"
    /\ \E name \in Sources :
        /\ sourceName' = name
        /\ out' = chunkText(name, text)
    /\ cpc' = "done"
    /\ UNCHANGED text
    /\ UNCHANGED <<storeVars, serviceVars, embed, appVars, promptVars>>

ChunkerNext == TypeRun \/ CallChunkText

ChunkerSpec == ChunkerInit /\ [][ChunkerNext]_vars

----------------------------------------------------------------------------
(* Claims about chunkText *)

\* the contents of the returned chunks
Contents(cs) == [i \in 1..Len(cs) |-> cs[i].content]

\* C4: for every input text chunkText never returns a chunk whose content is
\* empty, and for the empty text it returns the empty chunk sequence.
C4_NoEmptyChunk ==
    cpc = "done" =>
        /\ \A i \in 1..Len(out) : TextLen(out[i].content) > 0
        /\ (text = <<>> => out = <<>>)

\* C5: a text shorter than 1500 characters comes back as exactly one chunk,
\* with the given source and the text verbatim as its content.
C5_ShortTextPassthrough ==
    (cpc = "done" /\ TextLen(text) < chunkSize) =>
        /\ Len(out) = 1
        /\ out[1].source = sourceName
        /\ out[1].content = text

\* a short text that trimming or re-segmenting would change
C5_Witness ==
    /\ cpc = "done"
    /\ TextLen(text) < chunkSize
    /\ Trim(text) # text
    /\ Len(getSentences(text)) >= 2
    /\ Len(out) = 1

\* contents[j..] are the joined windows S[a..b] that follow the window
\* S[prevA..prevB]: each starts inside or right after the previous window (no
\* sentence skipped, none taken from before it), and ends after it
RECURSIVE CoversFrom(_, _, _, _, _)
CoversFrom(S, contents, j, prevA, prevB) ==
    IF j > Len(contents)
    THEN prevB = Len(S)
    ELSE \E a \in (IF j = 1 THEN {1} ELSE prevA..(prevB + 1)) :
         \E b \in Max(a, prevB + 1)..Len(S) :
            /\ Join(SubSeq(S, a, b)) = contents[j]
            /\ CoversFrom(S, contents, j + 1, a, b)

\* C6: for a text of at least 1500 characters the chunks are contiguous
\* windows of the sentence sequence, the first starting at the first sentence
\* and the last ending at the last one, and the windows without the leading
\* sentences shared with their predecessor concatenate to the sentence sequence.
C6_ChunkCoverage ==
    (cpc = "done" /\ TextLen(text) >= chunkSize) =>
        /\ CoversFrom(getSentences(text), Contents(out), 1, 1, 0)
        /\ \A i \in 1..Len(out) : out[i].source = sourceName

\* three chunks over at least four sentences
C6_Witness ==
    /\ cpc = "done"
    /\ TextLen(text) >= chunkSize
    /\ Len(out) >= 3
    /\ Len(getSentences(text)) >= 4

\* as CoversFrom, each window after the first starting exactly
\* min(2, k) sentences before the end of the previous window of k sentences
RECURSIVE OverlapsFrom(_, _, _, _, _)
OverlapsFrom(S, contents, j, prevA, prevB) ==
    IF j > Len(contents)
    THEN prevB = Len(S)
    ELSE LET a == IF j = 1 THEN 1
                  ELSE prevB + 1 - Min(2, prevB - prevA + 1)
         IN  \E b \in Max(a, prevB + 1)..Len(S) :
                /\ Join(SubSeq(S, a, b)) = contents[j]
                /\ OverlapsFrom(S, contents, j + 1, a, b)

\* C7: when chunkText returns more than one chunk, each chunk after the first
\* begins with exactly the last min(2, k) sentences of the previous chunk's
\* window of k sentences, and shares no further sentence with it.
C7_OverlapBound ==
    (cpc = "done" /\ Len(out) > 1) =>
        OverlapsFrom(getSentences(text), Contents(out), 1, 1, 0)

\* a chunk of one sentence followed by a chunk, and a chunk of three
C7_Witness ==
    /\ cpc = "done"
    /\ Len(out) > 1
    /\ LET w == ChunkWindows(getSentences(text))
       IN  /\ \E i \in 1..(Len(w) - 1) : Len(w[i]) = 1
           /\ \E i \in 1..(Len(w) - 1) : Len(w[i]) >= 3

----------------------------------------------------------------------------
(* cosineSimilarity *)

\* the embeddings of the chunks and the queries of the store's checks: <<1>>
\* has another dimension, <<0, 0>> has norm zero, <<1, 1>> and <<2, 2>> are
\* parallel
Vecs == { <<1, 0>>, <<1, 1>>, <<2, 2>>, <<-1, 0>>, <<1>> }

Queries == { <<1, 0>>, <<0, 1>>, <<0, 0>> }

Sign(x) == IF x > 0 THEN 1 ELSE IF x < 0 THEN -1 ELSE 0

\* the accumulation of the for loop: sum of a[i] * b[i]
RECURSIVE Dot(_, _)
Dot(a, b) == IF a = <<>> THEN 0 ELSE Head(a) * Head(b) + Dot(Tail(a), Tail(b))

\* The similarity dot / (sqrt(normA) * sqrt(normB)) is the real number
\* sgn * sqrt(sq / den), kept as the exact triple [sgn, sq, den] with den > 0.
SimZero == [sgn |-> 0, sq |-> 0, den |-> 1]

cosineSimilarity(vecA, vecB) ==
    IF Len(vecA) # Len(vecB) THEN SimZero
    ELSE LET dotProduct == Dot(vecA, vecB)
             normA == Dot(vecA, vecA)
             normB == Dot(vecB, vecB)
         IN  IF normA = 0 \/ normB = 0 THEN SimZero
             ELSE [sgn |-> Sign(dotProduct), sq |-> dotProduct * dotProduct,
                   den |-> normA * normB]

\* the sign of x - y for two similarities
SimCompare(x, y) ==
    IF x.sgn # y.sgn THEN Sign(x.sgn - y.sgn)
    ELSE x.sgn * Sign(x.sq * y.den - y.sq * x.den)

----------------------------------------------------------------------------
(* VectorStore *)

EmbeddedChunk(source, content, embedding) ==
    [source |-> source, content |-> content, embedding |-> embedding]

\* the chunks handed to add by the store's checks
StoreChunks == { EmbeddedChunk(s, <<Run("a", 1)>>, e) : s \in Sources, e \in Vecs }

\* the sequences over S of length lo..hi
SeqsOf(S, lo, hi) == UNION { [1..n -> S] : n \in lo..hi }

\* this.chunks.push(...newChunks)
add(store, newChunks) == store \o newChunks

\* a filter that keeps the chunks of sourceName and drops the others
removeBySourceInverted(store, name) ==
    SelectSeq(store, LAMBDA chunk : chunk.source = name)

\* this.chunks.filter(chunk => chunk.source !== sourceName)
removeBySource(store, name) ==
    SelectSeq(store, LAMBDA chunk : chunk.source # name)

\* { ...chunk, similarity: cosineSimilarity(queryEmbedding, chunk.embedding) }
Scored(chunk, queryEmbedding) ==
    [source |-> chunk.source, content |-> chunk.content,
     embedding |-> chunk.embedding,
     similarity |-> cosineSimilarity(queryEmbedding, chunk.embedding)]

\* a comparator sorting by ascending similarity
CompareScoredAscending(a, b) == SimCompare(a.similarity, b.similarity)

\* the comparator (a, b) => b.similarity - a.similarity, as its sign
CompareScored(a, b) == SimCompare(b.similarity, a.similarity)

\* Array.prototype.sort is stable: x goes behind every element that the
\* comparator does not put after it
RECURSIVE InsertStable(_, _)
InsertStable(sorted, x) ==
    IF sorted = <<>> THEN <<x>>
    ELSE IF CompareScored(Head(sorted), x) <= 0
         THEN <<Head(sorted)>> \o InsertStable(Tail(sorted), x)
         ELSE <<x>> \o sorted

RECURSIVE SortScored(_, _)
SortScored(done, rest) ==
    IF rest = <<>> THEN done
    ELSE SortScored(InsertStable(done, Head(rest)), Tail(rest))

\* a slice that clamps the count to the length, for counts >= 0 only
SliceTopKPlusOne(s, topK) == SubSeq(s, 1, Min(topK + 1, Len(s)))

\* Array.prototype.slice(0, topK): a negative topK counts from the end
SliceTopK(s, topK) ==
    IF topK >= 0
    THEN SubSeq(s, 1, Min(topK, Len(s)))
    ELSE SubSeq(s, 1, Max(0, Len(s) + topK))

search(store, queryEmbedding, topK) ==
    LET scoredChunks == [i \in 1..Len(store) |-> Scored(store[i], queryEmbedding)]
    IN  SliceTopK(SortScored(<<>>, scoredChunks), topK)

\* [...new Set(this.chunks.map(chunk => chunk.source))]: first occurrences, in order
RECURSIVE Dedup(_, _)
Dedup(seen, rest) ==
    IF rest = <<>> THEN seen
    ELSE IF \E i \in 1..Len(seen) : seen[i] = Head(rest)
         THEN Dedup(seen, Tail(rest))
         ELSE Dedup(Append(seen, Head(rest)), Tail(rest))

getSources(store) == Dedup(<<>>, [i \in 1..Len(store) |-> store[i].source])

\* this.getSources().includes(sourceName)
hasSource(store, name) ==
    LET srcs == getSources(store) IN \E i \in 1..Len(srcs) : srcs[i] = name

----------------------------------------------------------------------------
(* The VectorStore driven through its methods *)

TopKs == {-1, 0, 1, 2, 5}

StoreInit == ChunkerIdle /\ StoreIdle /\ ServiceIdle /\ EmbedIdle /\ AppIdle /\ PromptIdle

CallAdd ==
    /\ \E newChunks \in SeqsOf(StoreChunks, 0, MaxAdd) :
        /\ Len(chunks) + Len(newChunks) <= MaxStore
        /\ chunks' = add(chunks, newChunks)
        /\ op' = [name |-> "add", newChunks |-> newChunks]
    /\ result' = <<>>
    /\ UNCHANGED <<chunkerVars, serviceVars, embed, appVars, promptVars>>

CallRemoveBySource ==
    /\ \E name \in Sources :
        /\ chunks' = removeBySource(chunks, name)
        /\ op' = [name |-> "removeBySource", sourceName |-> name, before |-> chunks]
    /\ result' = <<>>
    /\ UNCHANGED <<chunkerVars, serviceVars, embed, appVars, promptVars>>

CallSearch ==
    /\ \E q \in Queries, topK \in TopKs :
        /\ result' = search(chunks, q, topK)
        /\ op' = [name |-> "search", queryEmbedding |-> q, topK |-> topK]
    /\ UNCHANGED chunks
    /\ UNCHANGED <<chunkerVars, serviceVars, embed, appVars, promptVars>>

StoreNext == CallAdd \/ CallRemoveBySource \/ CallSearch

StoreSpec == StoreInit /\ [][StoreNext]_vars

----------------------------------------------------------------------------
(* Claims about the VectorStore *)

Perms(n) == { p \in [1..n -> 1..n] : \A i, j \in 1..n : p[i] = p[j] => i = j }

SameChunk(scored, chunk) ==
    /\ scored.source = chunk.source
    /\ scored.content = chunk.content
    /\ scored.embedding = chunk.embedding

\* res is a prefix of the stored chunks arranged by non-increasing similarity
\* to q, chunks of equal similarity in the order of their insertion
IsRanking(store, q, res) ==
    /\ Len(res) <= Len(store)
    /\ \E p \in Perms(Len(store)) :
        /\ \A i \in 1..(Len(store) - 1) :
            LET c == SimCompare(cosineSimilarity(q, store[p[i]].embedding),
                                cosineSimilarity(q, store[p[i + 1]].embedding))
            IN  c > 0 \/ (c = 0 /\ p[i] < p[i + 1])
        /\ \A i \in 1..Len(res) :
            /\ SameChunk(res[i], store[p[i]])
            /\ res[i].similarity = cosineSimilarity(q, store[p[i]].embedding)

\* C1: whatever add and removeBySource left in the store, search returns the
\* stored chunks by non-increasing cosine similarity to the query, chunks of
\* equal similarity in the order in which they were inserted.
C1_SearchOrdering ==
    op.name = "search" => IsRanking(chunks, op.queryEmbedding, result)

\* three results, the first stored chunk ranked last, the other two tied while
\* differing in their embeddings
C1_Witness ==
    /\ op.name = "search"
    /\ Len(result) = 3
    /\ SameChunk(result[3], chunks[1])
    /\ SimCompare(result[1].similarity, result[2].similarity) = 0
    /\ result[1].embedding # result[2].embedding
    /\ SimCompare(result[2].similarity, result[3].similarity) > 0

\* C2 as stated: for every integer topK the result is no longer than topK and
\* no longer than the store, and empty on an empty store.
C2_LengthAtMostTopK ==
    op.name = "search" =>
        /\ Len(result) <= op.topK
        /\ Len(result) <= Len(chunks)
        /\ (chunks = <<>> => result = <<>>)

\* C2 amended: the result is never longer than the store, empty on an empty
\* store, and for every topK >= 0 no longer than topK.
C2_LengthAtMostTopKNonNegative ==
    op.name = "search" =>
        /\ (op.topK >= 0 => Len(result) <= op.topK)
        /\ Len(result) <= Len(chunks)
        /\ (chunks = <<>> => result = <<>>)

\* a search cut at topK
C2_Witness ==
    /\ op.name = "search"
    /\ op.topK = 2
    /\ Len(chunks) = 3
    /\ Len(result) = 2

\* the entries of s of a source other than name, in their order
RECURSIVE OtherSources(_, _)
OtherSources(s, name) ==
    IF s = <<>> THEN <<>>
    ELSE IF Head(s).source = name
         THEN OtherSources(Tail(s), name)
         ELSE <<Head(s)>> \o OtherSources(Tail(s), name)

InSeq(x, s) == \E i \in 1..Len(s) : s[i] = x

\* C3: removeBySource(X) removes exactly the entries of source X: afterwards
\* X is not among getSources(), hasSource(X) is false, the entries of the
\* other sources are stored in their order, and the store is as it was when X
\* was absent; a search returns chunks of stored sources only, and a source
\* enters the store only by an add of its chunks.
C3_RemoveBySource ==
    [][ /\ op'.name = "removeBySource" =>
            /\ ~InSeq(op'.sourceName, getSources(chunks'))
            /\ ~hasSource(chunks', op'.sourceName)
            /\ chunks' = OtherSources(op'.before, op'.sourceName)
            /\ (~hasSource(op'.before, op'.sourceName) => chunks' = op'.before)
        /\ op'.name = "search" =>
            \A i \in 1..Len(result') : hasSource(chunks, result'[i].source)
        /\ \A X \in Sources :
            (~hasSource(chunks, X) /\ hasSource(chunks', X)) =>
                /\ op'.name = "add"
                /\ \E i \in 1..Len(op'.newChunks) : op'.newChunks[i].source = X
      ]_vars

\* a removal that took an entry from between two entries of another source
C3_Witness ==
    /\ op.name = "removeBySource"
    /\ Len(op.before) = 3
    /\ op.before[2].source = op.sourceName
    /\ op.before[1].source # op.sourceName
    /\ op.before[3].source # op.sourceName
    /\ op.before[1] # op.before[3]
    /\ Len(chunks) = 2

----------------------------------------------------------------------------
(* The embedding provider *)

\* the vector the provider computes for a text, small enough for the products
\* of cosineSimilarity to stay within the integers
EmbeddingOf(t) == <<TextLen(t) % 10, 1>>

\* a vector computed for none of the texts of the request
StrayVector == <<0, 0>>

\* what a provider may answer to a request for the embeddings of texts: one
\* vector per text in order, the same with the last vector missing, or the
\* same with one more vector
ProviderAnswers(texts) ==
    LET exact == [i \in 1..Len(texts) |-> EmbeddingOf(texts[i])]
    IN  {exact, Append(exact, StrayVector)}
            \cup (IF exact = <<>> THEN {} ELSE {SubSeq(exact, 1, Len(exact) - 1)})

Request(caller, kind, taskType, texts) ==
    [caller |-> caller, kind |-> kind, taskType |-> taskType, texts |-> texts,
     state |-> "outstanding"]

\* the outstanding request of caller gets its response, or fails
Settle(reqs, caller, state) ==
    [k \in 1..Len(reqs) |->
        IF reqs[k].caller = caller /\ reqs[k].state = "outstanding"
        THEN [reqs[k] EXCEPT !.state = state]
        ELSE reqs[k]]

\* the load of the geminiService module: GEMINI without its API_KEY throws,
\* GATEWAY without its URL or key logs console.error and goes on
StartupOf(provider, creds) ==
    IF provider = "GEMINI" /\ ~creds THEN "fatal" ELSE "running"

\* _callAiGateway throws before its fetch when the URL or the key is missing
GatewayRefuses(provider, creds) == provider = "GATEWAY" /\ ~creds

----------------------------------------------------------------------------
(* embedChunks *)

BATCH_SIZE == 100

\* chunks.map(chunk => chunk.content)
ContentsOf(cs) == [i \in 1..Len(cs) |-> cs[i].content]

\* Array.prototype.slice(i, j) for 0 <= i <= j
Slice(s, i, j) == SubSeq(s, i + 1, Min(j, Len(s)))

\* the length check and the final map
EmbedFinish(call, embeddings) ==
    IF Len(embeddings) # Len(call.input)
    THEN [call EXCEPT !.status = "thrown"]
    ELSE [call EXCEPT !.status = "returned",
                      !.value = [i \in 1..Len(call.input) |->
                                    EmbeddedChunk(call.input[i].source,
                                                  call.input[i].content,
                                                  embeddings[i])]]

\* embedChunks up to its first await: the GATEWAY branch awaits its one
\* request unless _callAiGateway refuses, the GEMINI loop awaits its first
\* batch or is skipped
EmbedBegin(provider, creds, cs) ==
    LET call == [status |-> "awaiting", input |-> cs, i |-> 0,
                 allEmbeddings |-> <<>>, value |-> <<>>]
    IN  IF GatewayRefuses(provider, creds) THEN [call EXCEPT !.status = "thrown"]
        ELSE IF provider = "GATEWAY" THEN call
        ELSE IF 0 < Len(cs) THEN call
        ELSE EmbedFinish(call, <<>>)

\* the texts of the request an awaiting call waits for
BatchOf(provider, call) ==
    IF provider = "GATEWAY"
    THEN ContentsOf(call.input)
    ELSE Slice(ContentsOf(call.input), call.i, call.i + BATCH_SIZE)

\* the taskType of the requests of embedChunks: the GATEWAY body has none
DocumentTaskType(provider) ==
    IF provider = "GATEWAY" THEN "none" ELSE "RETRIEVAL_DOCUMENT"

\* embedChunks from the response it awaited to its next await or its end
EmbedOnResponse(provider, call, response) ==
    IF provider = "GATEWAY"
    THEN EmbedFinish(call, response)
    ELSE LET all == call.allEmbeddings \o response
             next == [call EXCEPT !.allEmbeddings = all, !.i = call.i + BATCH_SIZE]
         IN  IF next.i < Len(call.input) THEN next ELSE EmbedFinish(next, all)

\* the awaited request failed: embedChunks throws
EmbedOnFailure(call) == [call EXCEPT !.status = "thrown"]

\* the request log after a step of a call: the request it now waits for
SendIfAwaiting(reqs, provider, caller, call) ==
    IF call.status = "awaiting"
    THEN Append(reqs, Request(caller, "embeddings", DocumentTaskType(provider),
                              BatchOf(provider, call)))
    ELSE reqs

----------------------------------------------------------------------------
(* embedChunks called on its own, for 0..MaxChunks chunks *)

\* n chunks of one source with the contents "a", "aa", ...
SomeChunks(n) == [i \in 1..n |-> Chunk("X", <<Run("a", i)>>)]

Providers == {"GEMINI", "GATEWAY"}

EmbedInit ==
    /\ ChunkerIdle
    /\ StoreIdle
    /\ EmbedIdle
    /\ AppIdle
    /\ PromptIdle
    /\ aiProvider \in Providers
    /\ credentials = TRUE
    /\ startup = "running"
    /\ requests = <<>>

CallEmbedChunks ==
    /\ embed.status = "none"
    /\ \E n \in 0..MaxChunks :
        LET call == EmbedBegin(aiProvider, credentials, SomeChunks(n))
        IN  /\ embed' = call
            /\ requests' = SendIfAwaiting(requests, aiProvider, 0, call)
    /\ UNCHANGED <<chunkerVars, storeVars, configVars, appVars, promptVars>>

EmbedResponse ==
    /\ embed.status = "awaiting"
    /\ \E response \in ProviderAnswers(BatchOf(aiProvider, embed)) :
        LET call == EmbedOnResponse(aiProvider, embed, response)
        IN  /\ embed' = call
            /\ requests' = SendIfAwaiting(Settle(requests, 0, "answered"),
                                          aiProvider, 0, call)
    /\ UNCHANGED <<chunkerVars, storeVars, configVars, appVars, promptVars>>

EmbedFailure ==
    /\ embed.status = "awaiting"
    /\ embed' = EmbedOnFailure(embed)
    /\ requests' = Settle(requests, 0, "failed")
    /\ UNCHANGED <<chunkerVars, storeVars, configVars, appVars, promptVars>>

EmbedNext == CallEmbedChunks \/ EmbedResponse \/ EmbedFailure

EmbedSpec == EmbedInit /\ [][EmbedNext]_vars

----------------------------------------------------------------------------
(* Claims about embedChunks *)

\* C8: whatever number of vectors the provider returns for each request,
\* embedChunks fails or returns exactly one embedded chunk per input chunk, the
\* i-th with the source and the content of input chunk i and the embedding the
\* provider computed for that content.
C8_EmbedAlignment ==
    embed.status = "returned" =>
        /\ Len(embed.value) = Len(embed.input)
        /\ \A i \in 1..Len(embed.input) :
            /\ embed.value[i].source = embed.input[i].source
            /\ embed.value[i].content = embed.input[i].content
            /\ embed.value[i].embedding = EmbeddingOf(embed.input[i].content)

\* C9: every embedding request of an embedChunks call carries at most 100
\* texts, at most one request is outstanding at a time, and the requests carry
\* the input texts in input order, batch after batch.
C9_SequentialBatches ==
    /\ \A k \in 1..Len(requests) : Len(requests[k].texts) <= BATCH_SIZE
    /\ \A k \in 1..(Len(requests) - 1) : requests[k].state # "outstanding"
    /\ embed.status # "none" =>
        \A k \in 1..Len(requests) :
            requests[k].texts =
                Slice(ContentsOf(embed.input), BATCH_SIZE * (k - 1), BATCH_SIZE * k)

----------------------------------------------------------------------------
(* buildPrompt *)

\* a + b for strings
Cat(a, b) ==
    IF a = <<>> THEN b
    ELSE IF b = <<>> THEN a
    ELSE IF a[Len(a)].c = Head(b).c
         THEN SubSeq(a, 1, Len(a) - 1)
                  \o <<Run(Head(b).c, a[Len(a)].n + Head(b).n)>> \o Tail(b)
         ELSE a \o b

\* '\n\n'
BlankLine == <<Run("\n", 2)>>

\* the source names buildPrompt is applied to: two that are no array index
\* and two that are one
PromptSources == Sources \cup {"2", "10"}

\* the array index a property key denotes, -1 when it denotes none
ArrayIndexOf(key) ==
    CASE key = "2" -> 2
      [] key = "10" -> 10
      [] OTHER -> -1

\* contextBySource is the sequence of its properties [key, value] in the order
\* of their creation.  The place of the property named key, 0 when there is none
PropertyOf(acc, key) ==
    IF \E k \in 1..Len(acc) : acc[k].key = key
    THEN CHOOSE k \in 1..Len(acc) : acc[k].key = key
    ELSE 0

\* the reducer: if (!acc[chunk.source]) acc[chunk.source] = '';
\* acc[chunk.source] += chunk.content + '\n\n'.  A property that exists holds
\* a text ending in a blank line, so the test finds it
GroupBySource(acc, chunk) ==
    LET k == PropertyOf(acc, chunk.source)
        piece == Cat(chunk.content, BlankLine)
    IN  IF k = 0
        THEN Append(acc, [key |-> chunk.source, value |-> piece])
        ELSE [acc EXCEPT ![k].value = Cat(acc[k].value, piece)]

\* chunks.reduce(..., {})
RECURSIVE Reduce(_, _)
Reduce(acc, cs) ==
    IF cs = <<>> THEN acc ELSE Reduce(GroupBySource(acc, Head(cs)), Tail(cs))

\* properties whose keys are array indices, by ascending index
RECURSIVE ByAscendingIndex(_)
ByAscendingIndex(es) ==
    IF es = <<>> THEN <<>>
    ELSE LET k == CHOOSE k \in 1..Len(es) :
                    \A j \in 1..Len(es) :
                        ArrayIndexOf(es[k].key) <= ArrayIndexOf(es[j].key)
         IN  <<es[k]>>
                \o ByAscendingIndex(SubSeq(es, 1, k - 1) \o SubSeq(es, k + 1, Len(es)))

\* Object.entries(contextBySource): the properties whose keys are array
\* indices come first, by ascending index, then the others as created
ObjectEntries(acc) ==
    ByAscendingIndex(SelectSeq(acc, LAMBDA e : ArrayIndexOf(e.key) >= 0))
        \o SelectSeq(acc, LAMBDA e : ArrayIndexOf(e.key) < 0)

\* `[${index + 1}] Document Name: ${sourceName}\nContent:\n${content.trim()}`
Block(entry, index) ==
    [number |-> index + 1, sourceName |-> entry.key, content |-> Trim(entry.value)]

\* the prompt: the question and the reference blocks of its context, in order
buildPrompt(question, cs) ==
    LET entries == ObjectEntries(Reduce(<<>>, cs))
    IN  [question |-> question,
         context |-> [i \in 1..Len(entries) |-> Block(entries[i], i - 1)]]

----------------------------------------------------------------------------
(* buildPrompt applied to every sequence of at most MaxRanked chunks *)

Questions == { <<Run("q", 5)>>, <<Run(" ", 1)>> }

PromptContents == { <<Run("a", 1)>>, <<Run("b", 1)>> }

PromptChunks == { Chunk(n, c) : n \in PromptSources, c \in PromptContents }

PromptInit ==
    ChunkerIdle /\ StoreIdle /\ ServiceIdle /\ EmbedIdle /\ AppIdle /\ PromptIdle

\* one more chunk of the sequence
PushRanked ==
    /\ prompt.status = "none"
    /\ Len(ranked) < MaxRanked
    /\ \E chunk \in PromptChunks : ranked' = Append(ranked, chunk)
    /\ UNCHANGED prompt
    /\ UNCHANGED <<chunkerVars, storeVars, serviceVars, embed, appVars>>

CallBuildPrompt ==
    /\ prompt.status = "none"
    /\ \E question \in Questions :
        prompt' = [status |-> "built", value |-> buildPrompt(question, ranked)]
    /\ UNCHANGED ranked
    /\ UNCHANGED <<chunkerVars, storeVars, serviceVars, embed, appVars>>

PromptNext == PushRanked \/ CallBuildPrompt

PromptSpec == PromptInit /\ [][PromptNext]_vars

----------------------------------------------------------------------------
(* getAnswerFromDocuments *)

NoDocumentsAnswer == "Please upload at least one document before asking a question."

NothingRelevantAnswer ==
    "I couldn't find any relevant information in your documents to answer that question."

\* what the completion provider wrote
ProviderText == "the text of the completion"

\* vectorStore.search(questionEmbedding, 5)
AnswerTopK == 5

\* a test that finds sources in every store
NoSourcesNever(store) == Len(getSources(store)) < 0

\* vectorStore.getSources().length === 0
NoSources(store) == Len(getSources(store)) = 0

\* a test that takes every search result for relevant chunks
NothingRelevantNever(relevantChunks) == Len(relevantChunks) < 0

\* relevantChunks.length === 0
NothingRelevant(relevantChunks) == Len(relevantChunks) = 0

\* the taskType of the request of embedContent(question, 'RETRIEVAL_QUERY'):
\* the GATEWAY body has none
QueryTaskType(provider) ==
    IF provider = "GATEWAY" THEN "none" ELSE "RETRIEVAL_QUERY"

\* getAnswerFromDocuments up to await embedContent(...): the early return on
\* a store without sources, then the call, which _callAiGateway may refuse
AnswerBegin(store, provider, creds, question) ==
    LET ask == [pc |-> "embedding", question |-> question, searched |-> FALSE,
                relevant |-> <<>>, answer |-> ""]
    IN  IF NoSources(store)
        THEN [ask EXCEPT !.pc = "answered", !.answer = NoDocumentsAnswer]
        ELSE IF GatewayRefuses(provider, creds)
             THEN [ask EXCEPT !.pc = "failed"]
             ELSE ask

\* from the question's embedding to the return on an empty search or to the
\* await of the completion
AnswerOnEmbedding(store, provider, creds, ask, questionEmbedding) ==
    LET relevantChunks == search(store, questionEmbedding, AnswerTopK)
        found == [ask EXCEPT !.searched = TRUE, !.relevant = relevantChunks]
    IN  IF NothingRelevant(relevantChunks)
        THEN [found EXCEPT !.pc = "answered", !.answer = NothingRelevantAnswer]
        ELSE IF GatewayRefuses(provider, creds)
             THEN [found EXCEPT !.pc = "failed"]
             ELSE [found EXCEPT !.pc = "generating"]

\* the completion arrived: return response.text
AnswerOnCompletion(ask) == [ask EXCEPT !.pc = "answered", !.answer = ProviderText]

\* an awaited request failed: getAnswerFromDocuments throws
AnswerOnFailure(ask) == [ask EXCEPT !.pc = "failed"]

\* the request log after a step of getAnswerFromDocuments: the request it now
\* waits for, the embedding of the question or the completion of the prompt
SendIfAsking(reqs, provider, caller, ask) ==
    IF ask.pc = "embedding"
    THEN Append(reqs, Request(caller, "embeddings", QueryTaskType(provider),
                              <<ask.question>>))
    ELSE IF ask.pc = "generating"
         THEN Append(reqs, Request(caller, "completion", "none",
                                   <<buildPrompt(ask.question, ask.relevant)>>))
         ELSE reqs

----------------------------------------------------------------------------
(* App: handleFileUpload, handleDeleteDocument and handleSendMessage *)

\* the texts processFile extracts: one short sentence, the empty text, two
\* long sentences (two chunks), and 1500 blanks (no sentence, no chunk)
FileTexts ==
    { <<Run("a", 400)>>,
      <<>>,
      <<Run("b", 800), Run(".", 1), Run("b", 800)>>,
      <<Run(" ", 1500)>> }

Files == { [name |-> n, text |-> t] : n \in Sources, t \in FileTexts }

\* an add of the embeddings received so far, before the count is checked
StoreAfterEmbedPartial(store, call) ==
    add(store,
        [i \in 1..Min(Len(call.input), Len(call.allEmbeddings)) |->
            EmbeddedChunk(call.input[i].source, call.input[i].content,
                          call.allEmbeddings[i])])

\* vectorStoreRef.current.add(embeddedChunks), reached when embedChunks returned
StoreAfterEmbed(store, call) ==
    IF call.status = "returned" THEN add(store, call.value) ELSE store

\* setSources(vectorStoreRef.current.getSources()), reached likewise
SourcesAfterEmbed(srcs, store, call) ==
    IF call.status = "returned" THEN getSources(store) ELSE srcs

\* finally { setIsProcessing(false) }, once the handler is through
IsProcessingAfterEmbed(processing, call) ==
    IF call.status = "awaiting" THEN processing ELSE FALSE

\* where handleFileUpload stands after a step of its embedChunks call
PcAfterEmbed(call) ==
    IF call.status = "awaiting" THEN "embedding"
    ELSE IF call.status = "returned" THEN "done"
    ELSE "failed"

\* the module loaded, or failed to, under each provider with and without
\* what the provider needs
Init ==
    /\ ChunkerIdle
    /\ StoreIdle
    /\ EmbedIdle
    /\ AppIdle
    /\ PromptIdle
    /\ aiProvider \in Providers
    /\ credentials \in BOOLEAN
    /\ startup = StartupOf(aiProvider, credentials)
    /\ requests = <<>>

\* handleFileUpload up to await processFile(file): the duplicate check, then
\* setIsProcessing(true).  The sidebar disables its upload button while
\* isProcessing; the handler has no guard of its own and is taken as callable
\* at any time, also while an earlier call awaits.
UploadStart(t) ==
    /\ startup = "running"
    /\ uploads[t].pc = "idle"
    /\ \A u \in 1..(t - 1) : uploads[u].pc # "idle"
    /\ \E file \in Files :
        IF hasSource(chunks, file.name)
        THEN /\ uploads' = [uploads EXCEPT ![t] = [pc |-> "rejected", file |-> file]]
             /\ UNCHANGED isProcessing
        ELSE /\ uploads' = [uploads EXCEPT ![t] = [pc |-> "extracting", file |-> file]]
             /\ isProcessing' = TRUE
    /\ UNCHANGED <<chunkerVars, storeVars, serviceVars, embed, sources, asks, promptVars>>

\* the step of handleFileUpload that a step of its embedChunks call ends with
UploadContinue(t, call) ==
    /\ uploads' = [uploads EXCEPT ![t] = [pc |-> PcAfterEmbed(call),
                                          file |-> uploads[t].file,
                                          embed |-> call]]
    /\ chunks' = StoreAfterEmbed(chunks, call)
    /\ sources' = SourcesAfterEmbed(sources, StoreAfterEmbed(chunks, call), call)
    /\ isProcessing' = IsProcessingAfterEmbed(isProcessing, call)
    /\ UNCHANGED <<chunkerVars, op, result, configVars, embed, asks, promptVars>>

\* processFile resolved: chunkText, then embedChunks up to its first await
ExtractDone(t) ==
    /\ uploads[t].pc = "extracting"
    /\ LET call == EmbedBegin(aiProvider, credentials,
                              chunkText(uploads[t].file.name, uploads[t].file.text))
       IN  /\ requests' = SendIfAwaiting(requests, aiProvider, t, call)
           /\ UploadContinue(t, call)

\* processFile rejected: catch, finally
ExtractFail(t) ==
    /\ uploads[t].pc = "extracting"
    /\ uploads' = [uploads EXCEPT ![t].pc = "failed"]
    /\ isProcessing' = FALSE
    /\ UNCHANGED <<chunkerVars, storeVars, serviceVars, embed, sources, asks, promptVars>>

\* the provider answered the request embedChunks awaits
UploadEmbedResponse(t) ==
    /\ uploads[t].pc = "embedding"
    /\ \E response \in ProviderAnswers(BatchOf(aiProvider, uploads[t].embed)) :
        LET call == EmbedOnResponse(aiProvider, uploads[t].embed, response)
        IN  /\ requests' = SendIfAwaiting(Settle(requests, t, "answered"),
                                          aiProvider, t, call)
            /\ UploadContinue(t, call)

\* the request embedChunks awaits failed
UploadEmbedFailure(t) ==
    /\ uploads[t].pc = "embedding"
    /\ requests' = Settle(requests, t, "failed")
    /\ UploadContinue(t, EmbedOnFailure(uploads[t].embed))

\* handleDeleteDocument, for a document the sidebar lists
DeleteDocument ==
    /\ \E k \in 1..Len(sources) :
        /\ chunks' = removeBySource(chunks, sources[k])
        /\ sources' = getSources(removeBySource(chunks, sources[k]))
    /\ UNCHANGED <<chunkerVars, op, result, serviceVars, embed, uploads, isProcessing,
                   asks, promptVars>>

\* the caller an ask's requests are logged under, apart from the uploads'
AskCaller(a) == MaxUploads + a

\* handleSendMessage up to the first await of getAnswerFromDocuments: a blank
\* input is dropped.  ChatWindow disables its input without documents and while
\* isLoading; the handler has no guard of its own and is taken as callable at
\* any time
AskStart(a) ==
    /\ startup = "running"
    /\ asks[a].pc = "idle"
    /\ \A b \in 1..(a - 1) : asks[b].pc # "idle"
    /\ \E question \in Questions :
        LET ask == IF Trim(question) = <<>>
                   THEN [pc |-> "ignored"]
                   ELSE AnswerBegin(chunks, aiProvider, credentials, question)
        IN  /\ asks' = [asks EXCEPT ![a] = ask]
            /\ requests' = SendIfAsking(requests, aiProvider, AskCaller(a), ask)
    /\ UNCHANGED <<chunkerVars, storeVars, configVars, embed, uploads, sources,
                   isProcessing, promptVars>>

\* the provider answered embedContent with a vector
AskEmbedResponse(a) ==
    /\ asks[a].pc = "embedding"
    /\ \E questionEmbedding \in Queries :
        LET ask == AnswerOnEmbedding(chunks, aiProvider, credentials, asks[a],
                                     questionEmbedding)
        IN  /\ asks' = [asks EXCEPT ![a] = ask]
            /\ requests' = SendIfAsking(Settle(requests, AskCaller(a), "answered"),
                                        aiProvider, AskCaller(a), ask)
    /\ UNCHANGED <<chunkerVars, storeVars, configVars, embed, uploads, sources,
                   isProcessing, promptVars>>

\* the provider answered the completion
AskCompletionResponse(a) ==
    /\ asks[a].pc = "generating"
    /\ asks' = [asks EXCEPT ![a] = AnswerOnCompletion(asks[a])]
    /\ requests' = Settle(requests, AskCaller(a), "answered")
    /\ UNCHANGED <<chunkerVars, storeVars, configVars, embed, uploads, sources,
                   isProcessing, promptVars>>

\* the request the ask awaits failed: catch
AskFailure(a) ==
    /\ asks[a].pc \in {"embedding", "generating"}
    /\ asks' = [asks EXCEPT ![a] = AnswerOnFailure(asks[a])]
    /\ requests' = Settle(requests, AskCaller(a), "failed")
    /\ UNCHANGED <<chunkerVars, storeVars, configVars, embed, uploads, sources,
                   isProcessing, promptVars>>

Next ==
    \/ \E t \in 1..MaxUploads : UploadStart(t)
    \/ \E t \in 1..MaxUploads : ExtractDone(t)
    \/ \E t \in 1..MaxUploads : ExtractFail(t)
    \/ \E t \in 1..MaxUploads : UploadEmbedResponse(t)
    \/ \E t \in 1..MaxUploads : UploadEmbedFailure(t)
    \/ DeleteDocument
    \/ \E a \in 1..MaxAsks : AskStart(a)
    \/ \E a \in 1..MaxAsks : AskEmbedResponse(a)
    \/ \E a \in 1..MaxAsks : AskCompletionResponse(a)
    \/ \E a \in 1..MaxAsks : AskFailure(a)

Spec == Init /\ [][Next]_vars

----------------------------------------------------------------------------
(* Claims about handleFileUpload *)

\* the requests of caller sent so far
RequestsOf(reqs, caller) == SelectSeq(reqs, LAMBDA r : r.caller = caller)

\* the step of upload t that adds its document: embedChunks returned after
\* every one of its requests was answered, and the store grew by one embedded
\* chunk per chunk of the document, in order, behind the entries it held
AddsWholeDocument(t) ==
    LET file == uploads[t].file
        doc == chunkText(file.name, file.text)
        added == SubSeq(chunks', Len(chunks) + 1, Len(chunks'))
    IN  /\ uploads[t].pc \in {"extracting", "embedding"}
        /\ uploads'[t].embed.status = "returned"
        /\ \A k \in 1..Len(requests') :
            requests'[k].caller = t => requests'[k].state = "answered"
        /\ SubSeq(chunks', 1, Len(chunks)) = chunks
        /\ Len(added) = Len(doc)
        /\ \A i \in 1..Len(doc) :
            /\ added[i].source = file.name
            /\ added[i].content = doc[i].content

\* C10: an upload changes the vector store in one step only, the step that
\* appends all embedded chunks of its document after every embedding request
\* succeeded; every other step of the upload, and every step of an upload whose
\* extraction or embedding failed or whose embedding count mismatched, leaves
\* the store as it is, and an upload that ended never acts again.
C10_NoPartialAdd ==
    [][ \A t \in 1..MaxUploads :
            /\ uploads'[t] # uploads[t] =>
                IF uploads'[t].pc = "done"
                THEN AddsWholeDocument(t)
                ELSE chunks' = chunks
            /\ uploads[t].pc \in {"rejected", "failed", "done"} =>
                uploads'[t] = uploads[t]
      ]_vars

\* one upload added its two chunks, another one failed on an embedding count
\* that did not match after its request was answered
C10_Witness ==
    /\ \E t \in 1..MaxUploads :
        /\ uploads[t].pc = "done"
        /\ Len(uploads[t].embed.value) = 2
        /\ Len(chunks) = 2
    /\ \E t \in 1..MaxUploads :
        /\ uploads[t].pc = "failed"
        /\ uploads[t].file.text # <<>>
        /\ \E k \in 1..Len(requests) :
            requests[k].caller = t /\ requests[k].state = "answered"

----------------------------------------------------------------------------
(* Claims about getAnswerFromDocuments and the handlers of App *)

\* the completion requests of caller sent so far
CompletionsOf(reqs, caller) ==
    SelectSeq(reqs, LAMBDA r : r.caller = caller /\ r.kind = "completion")

\* C11: a question asked while the store has no sources is answered, in the
\* step of the call, with the fixed message asking for a document, without any
\* request being sent; and an ask answered with that message has sent no
\* request, neither for an embedding nor for a completion, and sends none later.
C11_NoDocumentsAnswer ==
    [][ \A a \in 1..MaxAsks :
            /\ ( /\ asks[a].pc = "idle"
                 /\ asks'[a].pc \notin {"idle", "ignored"}
                 /\ Len(getSources(chunks)) = 0 )
                => /\ asks'[a].pc = "answered"
                   /\ asks'[a].answer = NoDocumentsAnswer
                   /\ requests' = requests
            /\ ( /\ asks[a].pc = "answered"
                 /\ asks[a].answer = NoDocumentsAnswer )
                => /\ RequestsOf(requests', AskCaller(a)) = <<>>
                   /\ asks'[a] = asks[a]
      ]_vars

\* a question was answered with the fixed message, without a request of its
\* own, after an upload had sent requests and its document was deleted again
C11_Witness ==
    \E a \in 1..MaxAsks :
        /\ asks[a].pc = "answered"
        /\ asks[a].answer = NoDocumentsAnswer
        /\ RequestsOf(requests, AskCaller(a)) = <<>>
        /\ Len(requests) > 0
        /\ chunks = <<>>

\* the chunks of the store whose source is name
HeldOf(store, name) == SelectSeq(store, LAMBDA c : c.source = name)

\* C12: at every moment the chunks the store holds for a source name are the
\* embedded chunks of one upload of that name, and no two uploads of the same
\* name are past the duplicate check and under way together.
C12_OneUploadPerSource ==
    /\ \A name \in Sources :
        \/ HeldOf(chunks, name) = <<>>
        \/ \E t \in 1..MaxUploads :
            /\ uploads[t].pc = "done"
            /\ uploads[t].file.name = name
            /\ HeldOf(chunks, name) = uploads[t].embed.value
    /\ \A t, u \in 1..MaxUploads :
        ( /\ t # u
          /\ uploads[t].pc \in {"extracting", "embedding"}
          /\ uploads[u].pc \in {"extracting", "embedding"} )
            => uploads[t].file.name # uploads[u].file.name

\* C13: under each provider, when what the provider needs is missing the load
\* of the module fails, and no request is ever sent.
C13_FatalAtStartup ==
    ~credentials => (startup = "fatal" /\ requests = <<>>)

\* C14: every embedding request sent for a question carries the taskType
\* RETRIEVAL_QUERY and every embedding request sent for an upload carries the
\* taskType RETRIEVAL_DOCUMENT.
C14_TaskTypeSent ==
    \A k \in 1..Len(requests) :
        requests[k].kind = "embeddings" =>
            IF requests[k].caller > MaxUploads
            THEN requests[k].taskType = "RETRIEVAL_QUERY"
            ELSE requests[k].taskType = "RETRIEVAL_DOCUMENT"

\* C15: a completion request is sent only in the step in which the question's
\* embedding arrived and the search of the store as it is then returned at
\* least one chunk; when the store is empty by then, its documents deleted
\* while the embedding was awaited, the ask is answered with the fixed message
\* that nothing relevant was found and sends no completion request, then or
\* later.
C15_CompletionOnlyWithChunks ==
    [][ \A a \in 1..MaxAsks :
            /\ Len(CompletionsOf(requests', AskCaller(a)))
                    > Len(CompletionsOf(requests, AskCaller(a)))
                => /\ asks[a].pc = "embedding"
                   /\ asks'[a].searched
                   /\ Len(asks'[a].relevant) >= 1
                   /\ \E q \in Queries :
                        asks'[a].relevant = search(chunks, q, AnswerTopK)
            /\ ( /\ asks[a].pc = "embedding"
                 /\ asks'[a].pc # "failed"
                 /\ asks'[a] # asks[a]
                 /\ chunks = <<>> )
                => /\ asks'[a].pc = "answered"
                   /\ asks'[a].answer = NothingRelevantAnswer
                   /\ CompletionsOf(requests', AskCaller(a)) = <<>>
            /\ asks[a].pc = "answered"
                => /\ asks'[a] = asks[a]
                   /\ RequestsOf(requests', AskCaller(a))
                        = RequestsOf(requests, AskCaller(a))
      ]_vars

\* a question asked with a document indexed got the fixed message that nothing
\* relevant was found: the document was deleted while the question's embedding
\* was awaited, the embedding arrived, and no completion was requested
C15_Witness ==
    \E a \in 1..MaxAsks :
        /\ asks[a].pc = "answered"
        /\ asks[a].answer = NothingRelevantAnswer
        /\ asks[a].searched
        /\ chunks = <<>>
        /\ \E k \in 1..Len(requests) :
            /\ requests[k].caller = AskCaller(a)
            /\ requests[k].kind = "embeddings"
            /\ requests[k].state = "answered"
        /\ CompletionsOf(requests, AskCaller(a)) = <<>>

----------------------------------------------------------------------------
(* Claims about buildPrompt *)

\* the contents of the chunks of source name, in order, a blank line after each
RECURSIVE ContentsUnder(_, _)
ContentsUnder(cs, name) ==
    IF cs = <<>> THEN <<>>
    ELSE IF Head(cs).source = name
         THEN Cat(Cat(Head(cs).content, BlankLine), ContentsUnder(Tail(cs), name))
         ELSE ContentsUnder(Tail(cs), name)

\* C16: the context of the prompt has one reference block per distinct source
\* of the chunks, the blocks numbered 1, 2, ... in the order in which their
\* sources first occur among the chunks, each holding the contents of its
\* source's chunks in the order given.
C16_BlocksInFirstEncounterOrder ==
    prompt.status = "built" =>
        LET names == Dedup(<<>>, [i \in 1..Len(ranked) |-> ranked[i].source])
            blocks == prompt.value.context
        IN  /\ Len(blocks) = Len(names)
            /\ \A i \in 1..Len(blocks) :
                /\ blocks[i].number = i
                /\ blocks[i].sourceName = names[i]
                /\ blocks[i].content = Trim(ContentsUnder(ranked, names[i]))

====
